---- MODULE Spec2Model ----
(***************************************************************************)
(* bbsmon (src/src/main.rs): fetch the remote feed, diff it against the    *)
(* snapshot on disk, render and mail the new items, save the new snapshot. *)
(*                                                                         *)
(* Spec      the pipeline of main(), run after run, over a file system     *)
(*           and a remote feed.                                            *)
(* SpecDiff  RssContext::diff, the conversion to the payload and main's     *)
(*           branch on it, applied to pairs of documents.                  *)
(* SpecErr   stage failures turned into MyError values, and cause()        *)
(*           followed from them.                                           *)
(***************************************************************************)
EXTENDS Naturals, Sequences, FiniteSets, TLC

VARIABLES
    pc,        \* position in main(): start, config, fetched, loaded, diffed,
               \* rendered, sending, sent, created, done (exit 0), panic (unwrap failed)
    cfgFile,   \* the file bbsmon.json
    config,    \* main's `config`
    remote,    \* the bytes served at config.remote_rss
    fs,        \* the files the program reads and writes, by path
    new_ctx,   \* fetch_diff_items' `new_ctx` / main's `new_ctx`
    old_ctx,   \* fetch_diff_items' `old_ctx`
    items,     \* main's `items` (the payload)
    err,       \* the MyError variant an unwrap panicked with
    events,    \* the side effects of the current run, in order
    run,       \* number of the current run
    fs0,       \* fs when the current run started
    fsInit,    \* fs before the first run
    notified,  \* raw bodies of the documents whose mail was sent with success
    prev,      \* how the previous run ended and what the remote served then
    hist,      \* earlier runs: the payload items mailed with success, whether the
               \* remote only gained items, whether every snapshot write succeeded
    ctx_a,     \* diff's first argument
    ctx_b,     \* diff's second argument
    c,         \* diff's result
    ser_items, \* fetch_diff_items' first result for ctx_a and ctx_b
    fail_a,    \* SpecErr: a stage failure and the library error behind it
    fail_b,    \* SpecErr: another one
    my_a,      \* the MyError made of fail_a
    my_b,      \* the MyError made of fail_b
    cur,       \* the error reached by following cause() from my_a
    hops,      \* number of cause() calls made to reach cur
    epc,       \* SpecErr: "raw" before the errors are wrapped, "wrapped" after
    dpc        \* SpecDiff: "in" before diff is applied, "out" after it, "conv"
               \* after the conversion, then "noop" or "render" as main branches

pvars == <<pc, cfgFile, config, remote, fs, new_ctx, old_ctx, items, err,
           events, run, fs0, fsInit, notified, prev, hist>>
dvars == <<ctx_a, ctx_b, c, ser_items, dpc>>
evars == <<fail_a, fail_b, my_a, my_b, cur, hops, epc>>
vars == <<pvars, dvars, evars>>

----------------------------------------------------------------------------
(* Bounds *)

MaxRuns == 2      \* runs of the pipeline in one behaviour
MaxFeedLen == 1   \* items in a document the pipeline fetches or loads
MaxLen == 2       \* items in a document handed to diff in SpecDiff
MaxHops == 3      \* cause() calls followed in SpecErr

----------------------------------------------------------------------------
(* Items and documents *)

None == <<>>
Some(s) == <<s>>

\* rss::Item: the five fields the program reads, and `guid` for the fields of
\* rss::Item the program never reads but Item's equality compares.
MkItem(t, d, g) ==
    [title |-> Some(t), link |-> Some("http://bbs/1"), description |-> None,
     author |-> None, pub_date |-> d, guid |-> g]

ItemA == MkItem("a", Some("Tue, 01 Jul 2003 10:52:37 +0200"), Some("g1"))
ItemA2 == MkItem("a", Some("Tue, 01 Jul 2003 10:52:37 +0200"), Some("g2"))
ItemB == MkItem("b", Some("not-a-date"), Some("g1"))
ItemC == MkItem("b", None, Some("g1"))
ItemD == MkItem("d", Some("Wed, 02 Jul 2003 01:00:00 GMT"), None)

FeedItems == {ItemA, ItemB}
Items == {ItemA, ItemA2, ItemB, ItemC, ItemD}

SeqsUpTo(S, n) == UNION {[1..k -> S] : k \in 0..n}

\* Bytes of a document: an opening token, one token per item, a closing token.
\* A token that is no item carries NoItem.
NoItem ==
    [title |-> None, link |-> None, description |-> None, author |-> None,
     pub_date |-> None, guid |-> None]
Tok(k, it) == [kind |-> k, item |-> it]
OpenTok == Tok("open", NoItem)
CloseTok == Tok("close", NoItem)
JunkTok == Tok("junk", NoItem)

Encode(its) == <<OpenTok>> \o [i \in 1..Len(its) |-> Tok("item", its[i])] \o <<CloseTok>>
Junk == <<JunkTok>>

\* body.parse::<rss::Channel>() (line 177)
Parse(body) ==
    LET n == Len(body) IN
    IF /\ n >= 2
       /\ body[1] = OpenTok
       /\ body[n] = CloseTok
       /\ \A i \in 2..(n - 1) : body[i].kind = "item"
    THEN [ok |-> TRUE, items |-> [i \in 1..(n - 2) |-> body[i + 1].item]]
    ELSE [ok |-> FALSE, items |-> <<>>]

\* struct RssContext (lines 134-137)
RssContext(body) == [raw |-> body, channel |-> Parse(body).items]
NoCtx == [raw |-> <<>>, channel |-> <<>>]

\* a file: present or not, and its bytes
File(bytes) == [exists |-> TRUE, bytes |-> bytes]
Absent == [exists |-> FALSE, bytes |-> <<>>]

SnapshotOut == "old-rss.xml"    \* the path main hands to to_file (line 297)
Paths == {"old-rss.xml", "snap.xml"}

FeedDocs == SeqsUpTo(FeedItems, MaxFeedLen)
RemoteStates == {Encode(d) : d \in FeedDocs} \cup {Junk}
FileStates == {File(Encode(d)) : d \in FeedDocs} \cup {File(Junk), Absent}

\* struct Config (lines 52-61); only local_rss decides what the pipeline does
Config(p) == [local_rss |-> p]
NoConfig == [local_rss |-> ""]
CfgFile(k, p) == [kind |-> k, local_rss |-> p]
CfgFiles ==
    {CfgFile("missing", ""), CfgFile("unreadable", ""), CfgFile("invalid", "")}
        \cup {CfgFile("ok", p) : p \in Paths}

----------------------------------------------------------------------------
(* Pure functions *)

\* Vec::contains (line 165): equality of whole rss::Item values
ContainsMutant(b, x) == Len(b) > 0 /\ b[1] = x
Contains(b, x) == \E j \in 1..Len(b) : b[j] = x

\* RssContext::diff (lines 158-171): the loop over `a`, pushing to `c`
RECURSIVE DiffLoop(_, _, _, _)
DiffLoop(a, b, i, acc) ==
    IF i > Len(a) THEN acc
    ELSE DiffLoop(a, b, i + 1,
                  IF ~Contains(b, a[i]) THEN Append(acc, a[i]) ELSE acc)

DiffMutant(a, b) == DiffLoop(a, b, 1, <<>>) \o DiffLoop(b, a, 1, <<>>)
Diff(a, b) == DiffLoop(a, b, 1, <<>>)

\* DateTime::parse_from_rfc2822 succeeds (line 188)
IsRfc2822(s) ==
    s \in {"Tue, 01 Jul 2003 10:52:37 +0200", "Wed, 02 Jul 2003 01:00:00 GMT"}

\* with_timezone(&Local).format("%Y-%m-%d %H:%M:%S") (lines 189-192), local time UTC
FormatLocal(s) ==
    IF s = "Tue, 01 Jul 2003 10:52:37 +0200" THEN "2003-07-01 08:52:37"
    ELSE "2003-07-02 01:00:00"

\* convert_pub_date (lines 186-197)
convert_pub_dateDrop(old) ==
    IF old # None /\ IsRfc2822(old[1]) THEN Some(FormatLocal(old[1])) ELSE None
convert_pub_date(old) ==
    IF old # None /\ IsRfc2822(old[1]) THEN Some(FormatLocal(old[1])) ELSE old

\* struct SerItem built in convert_to_ser_items (lines 203-209)
SerItem(item) ==
    [title |-> item.title, link |-> item.link, description |-> item.description,
     author |-> item.author, pub_date |-> convert_pub_date(item.pub_date)]

\* convert_to_ser_items (lines 199-213)
convert_to_ser_items(its) == [i \in 1..Len(its) |-> SerItem(its[i])]

\* fetch_diff_items' result (lines 229-235)
DiffItemsOffByOne(new, old) ==
    LET new_items == Diff(new.channel, old.channel) IN
    IF Len(new_items) <= 1 THEN <<>> ELSE convert_to_ser_items(new_items)
DiffItems(new, old) ==
    LET new_items == Diff(new.channel, old.channel) IN
    IF Len(new_items) <= 0 THEN <<>> ELSE convert_to_ser_items(new_items)

----------------------------------------------------------------------------
(* The pipeline *)

\* the MyError variant the From impls give a library error (lines 108-130)
FromAllIo(lib) == "Io"
From(lib) ==
    IF lib = "io::Error" THEN "Io"
    ELSE IF lib = "reqwest::Error" THEN "Http"
    ELSE IF lib = "rss::Error" THEN "Rss"
    ELSE "Json"

Has(e) == \E i \in 1..Len(events) : events[i] = e

Panic(e, kind) ==
    /\ pc' = "panic"
    /\ err' = kind
    /\ events' = Append(events, e)

Step(e, next) ==
    /\ pc' = next
    /\ err' = err
    /\ events' = Append(events, e)

Range(f) == {f[i] : i \in DOMAIN f}

\* An error value: its type, its cause (None or Some(error)) and its description.
Error(t, inner, msg) == [type |-> t, inner |-> inner, msg |-> msg]
NoErr == Error("none", None, "")
NoFail == [stage |-> "none", error |-> NoErr]

ErrIdle ==
    /\ fail_a = NoFail
    /\ fail_b = NoFail
    /\ my_a = NoErr
    /\ my_b = NoErr
    /\ cur = NoErr
    /\ hops = 0
    /\ epc = "off"

NoHist == [mailed |-> {}, gainOnly |-> TRUE, writesOk |-> TRUE]

\* the remote document r2 holds every item the remote document r1 held
Gains(r1, r2) ==
    /\ Parse(r1).ok
    /\ Parse(r2).ok
    /\ Range(Parse(r1).items) \subseteq Range(Parse(r2).items)

Init ==
    /\ pc = "start"
    /\ cfgFile \in CfgFiles
    /\ config = NoConfig
    /\ remote \in RemoteStates
    /\ \E f \in FileStates :
          fs = [p \in Paths |->
                   IF cfgFile.kind = "ok" /\ p = cfgFile.local_rss THEN f ELSE Absent]
    /\ new_ctx = NoCtx
    /\ old_ctx = NoCtx
    /\ items = <<>>
    /\ err = "none"
    /\ events = <<>>
    /\ run = 1
    /\ fs0 = fs
    /\ fsInit = fs
    /\ notified = {}
    /\ prev = [status |-> "none", remote |-> <<>>]
    /\ hist = NoHist
    /\ ctx_a = <<>>
    /\ ctx_b = <<>>
    /\ c = <<>>
    /\ ser_items = <<>>
    /\ dpc = "off"
    /\ ErrIdle

PUnchanged == UNCHANGED <<hist, dvars, evars>>

LoadConfigMutant ==
    /\ pc = "start"
    /\ \/ /\ cfgFile.kind # "ok"
          /\ Step("config_err", "config")
          /\ config' = Config(SnapshotOut)
       \/ /\ cfgFile.kind = "ok"
          /\ Step("config_ok", "config")
          /\ config' = Config(cfgFile.local_rss)
    /\ UNCHANGED <<cfgFile, remote, fs, new_ctx, old_ctx, items, run, fs0, fsInit,
                   notified, prev>>
    /\ PUnchanged

\* load_config("bbsmon.json").unwrap() (lines 215-223, 285)
LoadConfig ==
    /\ pc = "start"
    /\ \/ /\ cfgFile.kind = "missing"          \* File::open fails
          /\ Panic("config_err", From("io::Error"))
          /\ config' = config
       \/ /\ cfgFile.kind = "unreadable"       \* read_to_string fails
          /\ Panic("config_err", From("io::Error"))
          /\ config' = config
       \/ /\ cfgFile.kind = "invalid"          \* serde_json::from_str fails
          /\ Panic("config_err", From("serde_json::Error"))
          /\ config' = config
       \/ /\ cfgFile.kind = "ok"
          /\ Step("config_ok", "config")
          /\ config' = Config(cfgFile.local_rss)
    /\ UNCHANGED <<cfgFile, remote, fs, new_ctx, old_ctx, items, run, fs0, fsInit,
                   notified, prev>>
    /\ PUnchanged

\* RssContext::from_url(remote)? (lines 140-143, 173-183, 226)
FromUrl ==
    /\ pc = "config"
    /\ \E net \in {"ok", "http_err", "read_err"} :
          \/ /\ net = "http_err"               \* reqwest::get fails
             /\ pc' = "panic"
             /\ err' = From("reqwest::Error")
             /\ events' = events \o <<"fetch_start", "fetch_err">>
             /\ new_ctx' = new_ctx
          \/ /\ net = "read_err"               \* read_to_string fails
             /\ pc' = "panic"
             /\ err' = From("io::Error")
             /\ events' = events \o <<"fetch_start", "fetch_err">>
             /\ new_ctx' = new_ctx
          \/ /\ net = "ok"
             /\ ~Parse(remote).ok              \* body.parse() fails
             /\ pc' = "panic"
             /\ err' = From("rss::Error")
             /\ events' = events \o <<"fetch_start", "fetch_parse_err">>
             /\ new_ctx' = new_ctx
          \/ /\ net = "ok"
             /\ Parse(remote).ok
             /\ pc' = "fetched"
             /\ err' = err
             /\ events' = events \o <<"fetch_start", "fetch_ok">>
             /\ new_ctx' = RssContext(remote)
    /\ UNCHANGED <<cfgFile, config, remote, fs, old_ctx, items, run, fs0, fsInit,
                   notified, prev>>
    /\ PUnchanged

FromFileTwice ==
    /\ pc = "fetched"
    /\ fs[config.local_rss].exists
    /\ Parse(fs[config.local_rss].bytes).ok
    /\ pc' = "loaded"
    /\ err' = err
    /\ events' = events \o <<"load_ok", "load_ok">>
    /\ old_ctx' = RssContext(fs[config.local_rss].bytes)
    /\ UNCHANGED <<cfgFile, config, remote, fs, new_ctx, items, run, fs0, fsInit,
                   notified, prev>>
    /\ PUnchanged

\* RssContext::from_file(local)? (lines 145-148, 173-183, 227)
FromFile ==
    /\ pc = "fetched"
    /\ LET f == fs[config.local_rss] IN
       \/ /\ ~f.exists                         \* File::open fails
          /\ Panic("load_err", From("io::Error"))
          /\ old_ctx' = old_ctx
       \/ /\ f.exists                          \* read_to_string fails
          /\ Panic("load_err", From("io::Error"))
          /\ old_ctx' = old_ctx
       \/ /\ f.exists
          /\ ~Parse(f.bytes).ok                \* body.parse() fails
          /\ Panic("load_parse_err", From("rss::Error"))
          /\ old_ctx' = old_ctx
       \/ /\ f.exists
          /\ Parse(f.bytes).ok
          /\ Step("load_ok", "loaded")
          /\ old_ctx' = RssContext(f.bytes)
    /\ UNCHANGED <<cfgFile, config, remote, fs, new_ctx, items, run, fs0, fsInit,
                   notified, prev>>
    /\ PUnchanged

\* diff, the conversion and fetch_diff_items' return (lines 229-235), and
\* main's destructuring of the result (line 287)
DiffStep ==
    /\ pc = "loaded"
    /\ items' = DiffItems(new_ctx, old_ctx)
    /\ Step("diff", "diffed")
    /\ UNCHANGED <<cfgFile, config, remote, fs, new_ctx, old_ctx, run, fs0, fsInit,
                   notified, prev>>
    /\ PUnchanged

\* `items.len() <= 0` (line 288)
IsNoOpMutant(its) == Len(its) < 0
IsNoOp(its) == Len(its) <= 0

\* println!("new and old rss are same."); return; (lines 288-291)
NoOp ==
    /\ pc = "diffed"
    /\ IsNoOp(items)
    /\ Step("noop", "done")
    /\ UNCHANGED <<cfgFile, config, remote, fs, new_ctx, old_ctx, items, run, fs0,
                   fsInit, notified, prev>>
    /\ PUnchanged

\* what .unwrap() does with render's result (line 293)
AfterRenderMutant(ok) == Step(IF ok THEN "render_ok" ELSE "render_err", "rendered")
AfterRender(ok) ==
    IF ok THEN Step("render_ok", "rendered") ELSE Panic("render_err", "Other")

\* render(...).unwrap() (lines 238-248, 293)
Render ==
    /\ pc = "diffed"
    /\ ~IsNoOp(items)
    /\ \E ok \in BOOLEAN : AfterRender(ok)
    /\ UNCHANGED <<cfgFile, config, remote, fs, new_ctx, old_ctx, items, run, fs0,
                   fsInit, notified, prev>>
    /\ PUnchanged

\* send_mail up to the transport (lines 251-272): email_builder.build() and
\* SmtpTransportBuilder::new may fail
SendBuild ==
    /\ pc = "rendered"
    /\ \/ Panic("send_build_err", "Other")
       \/ Panic("send_transport_err", "Other")
       \/ Step("send_start", "sending")
    /\ UNCHANGED <<cfgFile, config, remote, fs, new_ctx, old_ctx, items, run, fs0,
                   fsInit, notified, prev>>
    /\ PUnchanged

\* what .unwrap() does with send_mail's result (line 295)
AfterSendRetry(ok) ==
    IF ok THEN Step("send_ok", "sent") ELSE Step("send_err", "rendered")
AfterSendMutant(ok) == Step(IF ok THEN "send_ok" ELSE "send_err", "sent")
AfterSend(ok) ==
    IF ok THEN Step("send_ok", "sent") ELSE Panic("send_err", "Other")

\* sender.send(email), the match on its result and main's unwrap (lines 274-281, 295)
SendTransmit ==
    /\ pc = "sending"
    /\ \E ok \in BOOLEAN :
          /\ AfterSend(ok)
          /\ notified' = IF ok THEN notified \cup {new_ctx.raw} ELSE notified
    /\ UNCHANGED <<cfgFile, config, remote, fs, new_ctx, old_ctx, items, run, fs0,
                   fsInit, prev>>
    /\ PUnchanged

ToFileCreateMutant ==
    /\ pc \in {"rendered", "sent"}
    /\ \/ /\ Panic("create_err", From("io::Error"))
          /\ fs' = fs
       \/ /\ Step("create_ok", "created")
          /\ fs' = [fs EXCEPT ![SnapshotOut] = File(<<>>)]
    /\ UNCHANGED <<cfgFile, config, remote, new_ctx, old_ctx, items, run, fs0, fsInit,
                   notified, prev>>
    /\ PUnchanged

\* File::create(filename)? in to_file (line 151): creates or truncates
ToFileCreate ==
    /\ pc = "sent"
    /\ \/ /\ Panic("create_err", From("io::Error"))
          /\ fs' = fs
       \/ /\ Step("create_ok", "created")
          /\ fs' = [fs EXCEPT ![SnapshotOut] = File(<<>>)]
    /\ UNCHANGED <<cfgFile, config, remote, new_ctx, old_ctx, items, run, fs0, fsInit,
                   notified, prev>>
    /\ PUnchanged

ToFileWriteIgnoreErr ==
    /\ pc = "created"
    /\ \/ /\ Step("write_ok", "done")
          /\ fs' = [fs EXCEPT ![SnapshotOut] = File(new_ctx.raw)]
       \/ \E k \in 0..(Len(new_ctx.raw) - 1) :
             /\ Step("write_err", "done")
             /\ fs' = [fs EXCEPT ![SnapshotOut] = File(SubSeq(new_ctx.raw, 1, k))]
    /\ UNCHANGED <<cfgFile, config, remote, new_ctx, old_ctx, items, run, fs0, fsInit,
                   notified, prev>>
    /\ PUnchanged

ToFileWriteItemsOnly ==
    /\ pc = "created"
    /\ \/ /\ Step("write_ok", "done")
          /\ fs' = [fs EXCEPT ![SnapshotOut] =
                       File(SubSeq(new_ctx.raw, 2, Len(new_ctx.raw) - 1))]
       \/ \E k \in 0..(Len(new_ctx.raw) - 1) :
             /\ Panic("write_err", From("io::Error"))
             /\ fs' = [fs EXCEPT ![SnapshotOut] = File(SubSeq(new_ctx.raw, 1, k))]
    /\ UNCHANGED <<cfgFile, config, remote, new_ctx, old_ctx, items, run, fs0, fsInit,
                   notified, prev>>
    /\ PUnchanged

\* writer.write_all(self.raw.as_bytes())? (line 152): all the bytes, or an
\* error after some of them
ToFileWrite ==
    /\ pc = "created"
    /\ \/ /\ Step("write_ok", "done")
          /\ fs' = [fs EXCEPT ![SnapshotOut] = File(new_ctx.raw)]
       \/ \E k \in 0..(Len(new_ctx.raw) - 1) :
             /\ Panic("write_err", From("io::Error"))
             /\ fs' = [fs EXCEPT ![SnapshotOut] = File(SubSeq(new_ctx.raw, 1, k))]
    /\ UNCHANGED <<cfgFile, config, remote, new_ctx, old_ctx, items, run, fs0, fsInit,
                   notified, prev>>
    /\ PUnchanged

\* the process has exited; the scheduler starts the next run, and the remote
\* feed may have changed meanwhile
NextRun ==
    /\ pc \in {"done", "panic"}
    /\ run < MaxRuns
    /\ pc' = "start"
    /\ run' = run + 1
    /\ remote' \in RemoteStates
    /\ prev' = [status |-> pc, remote |-> remote]
    /\ config' = NoConfig
    /\ new_ctx' = NoCtx
    /\ old_ctx' = NoCtx
    /\ items' = <<>>
    /\ err' = "none"
    /\ events' = <<>>
    /\ fs0' = fs
    /\ hist' = [mailed |-> hist.mailed \cup
                              (IF Has("send_ok") THEN Range(items) ELSE {}),
                gainOnly |-> hist.gainOnly /\ Gains(remote, remote'),
                writesOk |-> hist.writesOk /\
                              ~(Has("create_err") \/ Has("write_err"))]
    /\ UNCHANGED <<cfgFile, fs, fsInit, notified>>
    /\ UNCHANGED <<dvars, evars>>

Next ==
    \/ LoadConfig
    \/ FromUrl
    \/ FromFile
    \/ DiffStep
    \/ NoOp
    \/ Render
    \/ SendBuild
    \/ SendTransmit
    \/ ToFileCreate
    \/ ToFileWrite
    \/ NextRun

Spec == Init /\ [][Next]_vars

----------------------------------------------------------------------------
(* RssContext::diff on its own *)

Docs == SeqsUpTo(Items, MaxLen)

InitDiff ==
    /\ pc = "off"
    /\ cfgFile = CfgFile("missing", "")
    /\ config = NoConfig
    /\ remote = Junk
    /\ fs = [p \in Paths |-> Absent]
    /\ new_ctx = NoCtx
    /\ old_ctx = NoCtx
    /\ items = <<>>
    /\ err = "none"
    /\ events = <<>>
    /\ run = 1
    /\ fs0 = fs
    /\ fsInit = fs
    /\ notified = {}
    /\ prev = [status |-> "none", remote |-> <<>>]
    /\ hist = NoHist
    /\ \E da \in Docs : ctx_a = RssContext(Encode(da))
    /\ \E db \in Docs : ctx_b = RssContext(Encode(db))
    /\ c = <<>>
    /\ ser_items = <<>>
    /\ dpc = "in"
    /\ ErrIdle

\* RssContext::diff(&ctx_a, &ctx_b) (lines 158-171)
DiffCall ==
    /\ dpc = "in"
    /\ c' = Diff(ctx_a.channel, ctx_b.channel)
    /\ dpc' = "out"
    /\ UNCHANGED <<ctx_a, ctx_b, ser_items>>
    /\ UNCHANGED <<pvars, evars>>

\* the rest of fetch_diff_items (lines 231-235): the payload it returns
ConvertCall ==
    /\ dpc = "out"
    /\ ser_items' = DiffItems(ctx_a, ctx_b)
    /\ dpc' = "conv"
    /\ UNCHANGED <<ctx_a, ctx_b, c>>
    /\ UNCHANGED <<pvars, evars>>

\* main's branch on the payload (lines 288-293)
BranchCall ==
    /\ dpc = "conv"
    /\ dpc' = IF IsNoOp(ser_items) THEN "noop" ELSE "render"
    /\ UNCHANGED <<ctx_a, ctx_b, c, ser_items>>
    /\ UNCHANGED <<pvars, evars>>

NextDiff ==
    \/ DiffCall
    \/ ConvertCall
    \/ BranchCall

SpecDiff == InitDiff /\ [][NextDiff]_vars

----------------------------------------------------------------------------
(* MyError on its own *)

\* a library error: without a cause, or with one cause of its own
LibErrors(lib) ==
    {Error(lib, None, lib), Error(lib, Some(Error("os error", None, "os")), lib)}

\* the stages of main and the library errors each can fail with
StageLibs ==
    {<<"config", "io::Error">>, <<"config", "serde_json::Error">>,
     <<"fetch", "reqwest::Error">>, <<"fetch", "io::Error">>,
     <<"fetch", "rss::Error">>,
     <<"snapshot", "io::Error">>, <<"snapshot", "rss::Error">>,
     <<"render", "tera::Error">>, <<"mail", "lettre::Error">>,
     <<"save", "io::Error">>}

Failures ==
    UNION {{[stage |-> sl[1], error |-> e] : e \in LibErrors(sl[2])} : sl \in StageLibs}

\* MyError::Other(String) (lines 246, 260, 265, 280)
Other(msg) == Error("Other", None, msg)

\* the MyError a stage failure becomes: `?` through the From impls (lines
\* 108-130), MyError::Other built by hand in render and send_mail
ToMyError(f) ==
    IF f.stage = "render" THEN Other("render failed")
    ELSE IF f.stage = "mail" THEN Other(f.error.msg)
    ELSE Error(From(f.error.type), Some(f.error), f.error.msg)

\* MyError::cause (lines 97-105); a library error answers with its own cause
Cause(e) ==
    IF e.type \in {"Io", "Http", "Rss", "Json"} THEN Some(e.inner[1])
    ELSE IF e.type = "Other" THEN Some(e)
    ELSE e.inner

InitErr ==
    /\ pc = "off"
    /\ cfgFile = CfgFile("missing", "")
    /\ config = NoConfig
    /\ remote = Junk
    /\ fs = [p \in Paths |-> Absent]
    /\ new_ctx = NoCtx
    /\ old_ctx = NoCtx
    /\ items = <<>>
    /\ err = "none"
    /\ events = <<>>
    /\ run = 1
    /\ fs0 = fs
    /\ fsInit = fs
    /\ notified = {}
    /\ prev = [status |-> "none", remote |-> <<>>]
    /\ hist = NoHist
    /\ ctx_a = <<>>
    /\ ctx_b = <<>>
    /\ c = <<>>
    /\ ser_items = <<>>
    /\ dpc = "off"
    /\ fail_a \in Failures
    /\ fail_b \in Failures
    /\ my_a = NoErr
    /\ my_b = NoErr
    /\ cur = NoErr
    /\ hops = 0
    /\ epc = "raw"

\* the two failures are turned into MyError values
WrapCall ==
    /\ epc = "raw"
    /\ my_a' = ToMyError(fail_a)
    /\ my_b' = ToMyError(fail_b)
    /\ cur' = ToMyError(fail_a)
    /\ hops' = 0
    /\ epc' = "wrapped"
    /\ UNCHANGED <<fail_a, fail_b>>
    /\ UNCHANGED <<pvars, dvars>>

\* one more cause() call along the chain from my_a
CauseCall ==
    /\ epc = "wrapped"
    /\ Cause(cur) # None
    /\ hops < MaxHops
    /\ cur' = Cause(cur)[1]
    /\ hops' = hops + 1
    /\ UNCHANGED <<fail_a, fail_b, my_a, my_b, epc>>
    /\ UNCHANGED <<pvars, dvars>>

NextErr ==
    \/ WrapCall
    \/ CauseCall

SpecErr == InitErr /\ [][NextErr]_vars

\* the error kind the specification designates for a stage failure
Designated(f) ==
    IF f.stage = "config" THEN "ConfigError"
    ELSE IF f.stage = "fetch" THEN
        (IF f.error.type = "rss::Error" THEN "ParseError" ELSE "NetworkError")
    ELSE IF f.stage \in {"snapshot", "save"} THEN "StorageError"
    ELSE IF f.stage = "render" THEN "RenderError"
    ELSE "MailError"

C20_CauseChainEnds ==
    epc = "wrapped" => (Cause(cur) # Some(cur) /\ hops < MaxHops)

----------------------------------------------------------------------------
(* Properties of the pipeline *)

WriteEvents == {"create_ok", "create_err", "write_ok", "write_err"}
SendEvents == {"send_build_err", "send_transport_err", "send_start", "send_ok", "send_err"}
SendFailures == {"send_build_err", "send_transport_err", "send_err"}
PreSendFailures ==
    {"config_err", "fetch_err", "fetch_parse_err", "load_err", "load_parse_err",
     "render_err"}
NetworkEvents ==
    {"fetch_start", "fetch_ok", "fetch_err", "fetch_parse_err",
     "send_transport_err", "send_start", "send_ok", "send_err"}

HasAny(S) == \E i \in 1..Len(events) : events[i] \in S
SendFailed == HasAny(SendFailures)

\* C1: within a run, every step of the snapshot write (to_file's create and
\* write) comes after a successful send of that run, and no file differs from
\* what it was at the start of the run unless the send has succeeded.
C1_WriteOnlyAfterSendOk ==
    /\ \A i \in 1..Len(events) :
          events[i] \in WriteEvents => \E j \in 1..(i - 1) : events[j] = "send_ok"
    /\ fs # fs0 => Has("send_ok")

C1_Witness == pc = "done" /\ Has("write_ok") /\ fs # fs0

\* C2: once send has failed in a run (message build, transport construction
\* or transmission), every file is what it was when the run started, up to
\* and including the end of the run.
C2_SendFailureKeepsSnapshot == SendFailed => (fs = fs0 /\ pc = "panic")

C2_Witness == pc = "panic" /\ Has("send_err") /\ new_ctx.raw # fs[config.local_rss].bytes

\* C3: when the diff of the fetched document against the loaded snapshot is
\* empty, the run ends with success and has rendered nothing, sent nothing and
\* written nothing.
C3_EmptyDiffIsNoOp ==
    (Has("diff") /\ Diff(new_ctx.channel, old_ctx.channel) = <<>>) =>
        /\ pc \in {"diffed", "done"}
        /\ err = "none"
        /\ ~HasAny({"render_ok", "render_err"} \cup SendEvents \cup WriteEvents)
        /\ fs = fs0

C3_Witness == pc = "done" /\ Has("noop") /\ Len(new_ctx.channel) > 0 /\ fs = fs0

\* C4: after a run with a non-empty diff in which send and the write succeed,
\* the file at the configured snapshot path (Config.local_rss) holds exactly
\* the raw bytes of the fetched document.
C4_SnapshotPathHoldsFetched ==
    (pc = "done" /\ Has("write_ok")) => fs[config.local_rss] = File(new_ctx.raw)

\* C5: a run that follows a successfully completed run, with the remote
\* document unchanged in between, sends no mail and leaves every file unchanged.
C5_SecondRunIsNoOp ==
    (run > 1 /\ prev.status = "done" /\ prev.remote = remote) =>
        (~Has("send_start") /\ ~Has("send_ok") /\ fs = fs0)

\* C8: at every point of every sequence of runs, the snapshot file (the file at
\* the configured path) is either the initial snapshot or the complete raw
\* bytes of a fetched document whose mail was sent with success.
C8_SnapshotNeverPartial ==
    cfgFile.kind = "ok" =>
        LET f == fs[cfgFile.local_rss] IN
        \/ f = fsInit[cfgFile.local_rss]
        \/ f.exists /\ f.bytes \in notified

\* C9: a failure of a stage before send (config, fetch, snapshot load, render)
\* ends the run there: it is the last thing the run does, the process has
\* panicked, no mail was attempted and no file was written.
C9_FailureBeforeSendAborts ==
    HasAny(PreSendFailures) =>
        /\ pc = "panic"
        /\ \A i \in 1..Len(events) : events[i] \in PreSendFailures => i = Len(events)
        /\ ~HasAny(SendEvents \cup WriteEvents)
        /\ fs = fs0

C9_Witness == Has("render_err") /\ Has("fetch_ok") /\ new_ctx.raw # fs[config.local_rss].bytes

\* C10: a run whose config load failed has panicked without any network
\* access: no fetch was started and no mail-server connection was opened.
C10_ConfigFailureBeforeNetwork ==
    Has("config_err") => (pc = "panic" /\ ~HasAny(NetworkEvents))

C10_Witness == Has("config_err") /\ cfgFile.kind = "invalid" /\ err = "Json"

ReadEvents == {"load_ok", "load_err", "load_parse_err"}
CreateEvents == {"create_ok", "create_err"}
WriteAllEvents == {"write_ok", "write_err"}
StageFailures == PreSendFailures \cup SendFailures \cup {"create_err", "write_err"}

Count(S) == Cardinality({i \in 1..Len(events) : events[i] \in S})

\* the status the process ends with: 0 when main returns, 101 when an unwrap panics
ExitStatus == IF pc = "done" THEN 0 ELSE 101

\* C11: send is attempted at most once per run: one transmission at most, and
\* nothing of send_mail happens after a send has failed or succeeded.
C11_SendAtMostOnce ==
    /\ Count({"send_start"}) <= 1
    /\ Count({"send_ok", "send_err"}) <= 1
    /\ \A i \in 1..Len(events) :
          events[i] \in (SendFailures \cup {"send_ok"}) =>
              \A j \in (i + 1)..Len(events) : events[j] \notin SendEvents

C11_Witness ==
    pc = "panic" /\ err = "Other" /\ Has("send_start") /\ events[Len(events)] = "send_err"

C14_ExitStatus ==
    pc \in {"done", "panic"} =>
        /\ ExitStatus = 0 <=>
              \/ Has("send_ok") /\ Has("write_ok")
              \/ Has("diff") /\ Diff(new_ctx.channel, old_ctx.channel) = <<>>
        /\ HasAny(StageFailures) => ExitStatus # 0
        /\ ExitStatus # 0 => HasAny(StageFailures)

C14_Witness == pc = "panic" /\ Has("write_err") /\ ExitStatus # 0

\* C16: after to_file has written a fetched document, loading the written path
\* the way from_file does gives a document with the same raw bytes and the
\* same items, and the diff of the fetched document against it is empty.
C16_SaveLoadRoundTrip ==
    (pc = "done" /\ Has("write_ok")) =>
        LET f == fs[SnapshotOut]
            loaded == RssContext(f.bytes)
        IN /\ f.exists
           /\ Parse(f.bytes).ok
           /\ loaded.raw = new_ctx.raw
           /\ loaded.channel = new_ctx.channel
           /\ Diff(new_ctx.channel, loaded.channel) = <<>>

C16_Witness ==
    /\ pc = "done"
    /\ Has("write_ok")
    /\ Len(new_ctx.channel) > 0
    /\ RssContext(fs[SnapshotOut].bytes) = new_ctx

\* the payload items mailed with success so far, the current run included
MailedNow == hist.mailed \cup (IF Has("send_ok") THEN Range(items) ELSE {})

\* the items in the bytes of a file
ItemsIn(f) == {f.bytes[i].item : i \in {k \in 1..Len(f.bytes) : f.bytes[k].kind = "item"}}

\* C18: at every point, every item in the snapshot the next run will load (the
\* file at the configured path) was in the initial snapshot or was, transformed,
\* in the payload of a mail whose send succeeded.
C18_NoSilentLoss ==
    cfgFile.kind = "ok" =>
        \A it \in ItemsIn(fs[cfgFile.local_rss]) :
            \/ it \in ItemsIn(fsInit[cfgFile.local_rss])
            \/ SerItem(it) \in MailedNow

C18_Witness ==
    /\ cfgFile.kind = "ok"
    /\ Has("write_ok")
    /\ \E it \in ItemsIn(fs[cfgFile.local_rss]) :
          /\ it \notin ItemsIn(fsInit[cfgFile.local_rss])
          /\ SerItem(it) \in MailedNow

\* C19: while the remote feed has only gained items and every snapshot write
\* has succeeded, a mail sent with success holds no item that an earlier
\* successfully sent mail held.
C19_NoDuplicateMail ==
    (/\ hist.gainOnly
     /\ hist.writesOk
     /\ ~(Has("create_err") \/ Has("write_err"))
     /\ Has("send_ok")) => Range(items) \cap hist.mailed = {}

----------------------------------------------------------------------------
(* Properties of diff *)

\* the five fields of an Item that the program reads
FiveFields(x) ==
    [title |-> x.title, link |-> x.link, description |-> x.description,
     author |-> x.author, pub_date |-> x.pub_date]

\* s is t with some elements left out
RECURSIVE IsSubseq(_, _)
IsSubseq(s, t) ==
    IF s = <<>> THEN TRUE
    ELSE IF t = <<>> THEN FALSE
    ELSE IF Head(s) = Head(t) THEN IsSubseq(Tail(s), Tail(t))
    ELSE IsSubseq(s, Tail(t))

C7_DiffSelfAndEmpty ==
    dpc = "out" =>
        /\ ctx_a.channel = ctx_b.channel => c = <<>>
        /\ ctx_b.channel = <<>> => c = ctx_a.channel

C7_Witness ==
    /\ dpc = "out"
    /\ ctx_a = ctx_b
    /\ c = <<>>
    /\ \E i, j \in 1..Len(ctx_a.channel) : i # j /\ ctx_a.channel[i] = ctx_a.channel[j]

Converted == dpc \in {"conv", "noop", "render"}

\* C13: the transform gives one output item per input item, with title, link,
\* description and author equal to the input's (unset stays unset); the
\* pub-date is the reformatted local-time string when the input parses as
\* RFC 2822, the input string unchanged when it does not, unset when unset.
C13_TransformKeepsFields ==
    (Converted /\ c # <<>>) =>
        /\ Len(ser_items) = Len(c)
        /\ \A i \in 1..Len(c) :
              LET x == c[i]
                  y == ser_items[i]
              IN /\ y.title = x.title
                 /\ y.link = x.link
                 /\ y.description = x.description
                 /\ y.author = x.author
                 /\ x.pub_date = None => y.pub_date = None
                 /\ (x.pub_date # None /\ IsRfc2822(x.pub_date[1])) =>
                       /\ y.pub_date = Some(FormatLocal(x.pub_date[1]))
                       /\ y.pub_date # x.pub_date
                 /\ (x.pub_date # None /\ ~IsRfc2822(x.pub_date[1])) =>
                       y.pub_date = x.pub_date

C13_Witness ==
    /\ Converted
    /\ \E i, j \in 1..Len(c) :
          /\ c[i].pub_date = Some("not-a-date")
          /\ ser_items[i].pub_date = Some("not-a-date")
          /\ c[j].pub_date = Some("Tue, 01 Jul 2003 10:52:37 +0200")
          /\ ser_items[j].pub_date = Some("2003-07-01 08:52:37")

\* C17: the payload is the transformed diff: as long as the diff and in its
\* order, item i the transform of the diff's item i; it is empty exactly when
\* the diff is, and main takes the no-op branch exactly when the diff is empty.
C17_PayloadIsTransformedDiff ==
    Converted =>
        /\ Len(ser_items) = Len(c)
        /\ \A i \in 1..Len(c) : ser_items[i] = SerItem(c[i])
        /\ ser_items = <<>> <=> c = <<>>
        /\ dpc = "noop" => c = <<>>
        /\ dpc = "render" => c # <<>>

C17_Witness ==
    /\ dpc = "render"
    /\ Len(c) > 1
    /\ ser_items[1] # ser_items[Len(c)]
    /\ ser_items[1] = SerItem(c[1])

====
